---- MODULE Spec2Model ----
(***************************************************************************)
(* ListPredict: the two scoring pipelines of the repository.               *)
(*                                                                         *)
(*   basic     src/app.py                   DCPropertyPredictor + main     *)
(*   enhanced  src/dc_property_processor.py main and its factor scorers    *)
(*                                                                         *)
(* Representation.                                                         *)
(*   - A CSV cell is a record [k, s, n]: k = "nan" (missing), "str" (text  *)
(*     s) or "num" (number n).  Money is in whole dollars.                 *)
(*   - Text is a TLA+ string; substring tests, strip, upper and the date   *)
(*     and float parsers work on its characters.                           *)
(*   - A date is a day number (days since 1970-01-01); years since a sale  *)
(*     is kept as YearsN = years * 1461 = 4 * days, so that days / 365.25  *)
(*     is exact and the default 25.0 is 36525.                             *)
(*   - Enhanced factors are in thousandths; the ward, property type and    *)
(*     seasonal multipliers are in twentieths (all are multiples of 0.05), *)
(*     so the enhanced probability is an integer number of 1/8000000.      *)
(*   - The basic probability is an integer number of 1/10000.              *)
(*   Arithmetic is exact where Python uses binary floating point.          *)
(***************************************************************************)
EXTENDS Integers, Sequences, FiniteSets, TLC

VARIABLES
    variant,        \* which program runs: "basic" | "enhanced", or one function
                    \* called on its own: "categorize" | "normalize" |
                    \* "assign_tiers" | "boundary"
    pc,             \* position of main
    df,             \* the input rows (the DataFrame)
    idx,            \* rows of df already iterated
    records,        \* processed_data / records: the scored records so far
    output,         \* the written file: <<"none">> or <<"file", records>>
    clock,          \* the wall clock, as a day number
    ticks,          \* how many times the wall clock has advanced
    current_date,   \* basic: self.current_date, captured in __init__
    seasonal,       \* enhanced: seasonal_multiplier, captured at line 325
    arg,            \* input of the pure function applied
    res,            \* its result; in a run, the summary statistics printed
    source,         \* "present" | "absent": whether dc_property_data.csv can be read
    error           \* the exception main met, "none" when there was none

vars == <<variant, pc, df, idx, records, output, clock, ticks, current_date,
          seasonal, arg, res, source, error>>

(***************************************************************************)
(* Bounds                                                                  *)
(***************************************************************************)
MaxRows == 3
MaxTicks == 1

(***************************************************************************)
(* Text                                                                    *)
(***************************************************************************)
Ch(s, i) == SubSeq(s, i, i)

DigitChars == "0123456789"

LowerChars == "abcdefghijklmnopqrstuvwxyz"

UpperChars == "ABCDEFGHIJKLMNOPQRSTUVWXYZ"

IsDigit(c) == \E i \in 1..10 : Ch(DigitChars, i) = c

DigitVal(c) == CHOOSE v \in 0..9 : Ch(DigitChars, v + 1) = c

AllDigits(s) == \A i \in 1..Len(s) : IsDigit(Ch(s, i))

\* the value of a string of digits
RECURSIVE DigitsVal(_)
DigitsVal(s) ==
    IF Len(s) = 0 THEN 0
    ELSE 10 * DigitsVal(SubSeq(s, 1, Len(s) - 1)) + DigitVal(Ch(s, Len(s)))

\* str(n) of an integer
RECURSIVE NatToStr(_)
NatToStr(n) ==
    IF n < 10 THEN Ch(DigitChars, n + 1)
    ELSE NatToStr(n \div 10) \o Ch(DigitChars, (n % 10) + 1)

IntToStr(n) == IF n < 0 THEN "-" \o NatToStr(0 - n) ELSE NatToStr(n)

UpperCh(c) ==
    IF \E i \in 1..26 : Ch(LowerChars, i) = c
    THEN Ch(UpperChars, CHOOSE i \in 1..26 : Ch(LowerChars, i) = c)
    ELSE c

\* str.upper()
RECURSIVE Upper(_)
Upper(s) == IF Len(s) = 0 THEN "" ELSE UpperCh(Ch(s, 1)) \o Upper(Tail(s))

\* str.strip()
RECURSIVE LStrip(_)
LStrip(s) == IF Len(s) > 0 /\ Ch(s, 1) = " " THEN LStrip(Tail(s)) ELSE s

RECURSIVE RStrip(_)
RStrip(s) ==
    IF Len(s) > 0 /\ Ch(s, Len(s)) = " "
    THEN RStrip(SubSeq(s, 1, Len(s) - 1)) ELSE s

Strip(s) == LStrip(RStrip(s))

\* k in s
Contains(s, k) ==
    \E i \in 1..(Len(s) - Len(k) + 1) : SubSeq(s, i, i + Len(k) - 1) = k

\* any(indicator in s for indicator in list)
AnyIn(list, s) == \E j \in 1..Len(list) : Contains(s, list[j])

\* position of the first c in s, 0 when there is none
FirstIndex(s, c) ==
    IF \E i \in 1..Len(s) : Ch(s, i) = c
    THEN CHOOSE i \in 1..Len(s) :
            Ch(s, i) = c /\ \A j \in 1..(i - 1) : Ch(s, j) # c
    ELSE 0

\* s.split(c)
RECURSIVE Split(_, _)
Split(s, c) ==
    LET i == FirstIndex(s, c) IN
    IF i = 0 THEN <<s>>
    ELSE <<SubSeq(s, 1, i - 1)>> \o Split(SubSeq(s, i + 1, Len(s)), c)

(***************************************************************************)
(* Cells                                                                   *)
(***************************************************************************)
NaN == [k |-> "nan", s |-> "", n |-> 0]

Txt(t) == [k |-> "str", s |-> t, n |-> 0]

Num(v) == [k |-> "num", s |-> "", n |-> v]

\* pd.isna(value)
IsNa(c) == c.k = "nan"

\* str(value)
StrOf(c) ==
    IF c.k = "nan" THEN "nan" ELSE IF c.k = "str" THEN c.s ELSE IntToStr(c.n)

\* the outcome of a conversion that may raise
Raised == [ok |-> FALSE, val |-> 0]

Returned(v) == [ok |-> TRUE, val |-> v]

\* f if it did not raise, else the default of the except branch
OrDefault(f, default) == IF f.ok THEN f.val ELSE default

Negated(f) == [ok |-> f.ok, val |-> 0 - f.val]

\* float(s) of a string: optional sign, digits, optional point and digits,
\* surrounding blanks ignored; anything else raises.  The value is the
\* whole-dollar part.
FloatOfParts(ip, fp) ==
    IF AllDigits(ip) /\ AllDigits(fp) /\ Len(ip) + Len(fp) > 0
    THEN Returned(DigitsVal(ip)) ELSE Raised

FloatAtPoint(body, i) ==
    IF i = 0 THEN FloatOfParts(body, "")
    ELSE FloatOfParts(SubSeq(body, 1, i - 1), SubSeq(body, i + 1, Len(body)))

FloatUnsigned(body) == FloatAtPoint(body, FirstIndex(body, "."))

FloatSigned(t) ==
    IF Len(t) > 0 /\ Ch(t, 1) = "-" THEN Negated(FloatUnsigned(Tail(t)))
    ELSE IF Len(t) > 0 /\ Ch(t, 1) = "+" THEN FloatUnsigned(Tail(t))
    ELSE FloatUnsigned(t)

ParseFloat(s) == FloatSigned(Strip(s))

\* re.sub(r'[^\d.-]', '', s)
RECURSIVE StripNonNumeric(_)
StripNonNumeric(s) ==
    IF Len(s) = 0 THEN ""
    ELSE (IF IsDigit(Ch(s, 1)) \/ Ch(s, 1) = "." \/ Ch(s, 1) = "-" THEN Ch(s, 1) ELSE "")
            \o StripNonNumeric(Tail(s))

\* float(cleaned) if cleaned else 0.0, and except: return 0.0
FloatOfCleaned(cleaned) ==
    IF cleaned = "" THEN 0 ELSE OrDefault(ParseFloat(cleaned), 0)

\* app.py clean_currency_field
clean_currency_field(value) ==
    IF IsNa(value) \/ (value.k = "str" /\ value.s = "") \/ (value.k = "num" /\ value.n = 0)
    THEN 0
    ELSE IF value.k = "str" THEN FloatOfCleaned(StripNonNumeric(value.s))
    ELSE value.n

\* str(val).strip()
Stripped(val) == Strip(StrOf(val))

\* dc_property_processor.py main.get_value
get_value(val, default) ==
    IF IsNa(val) \/ (val.k = "str" /\ val.s = "nan") \/ Stripped(val) = ""
    THEN default
    ELSE Stripped(val)

\* dc_property_processor.py main.get_numeric_value
get_numeric_value(val, default) ==
    IF IsNa(val) THEN default
    ELSE IF val.k = "num" THEN val.n
    ELSE OrDefault(ParseFloat(val.s), default)

(***************************************************************************)
(* Dates                                                                   *)
(***************************************************************************)
IsLeap(y) == (y % 4 = 0 /\ y % 100 # 0) \/ y % 400 = 0

DaysInMonth(y, m) ==
    IF m = 2 THEN (IF IsLeap(y) THEN 29 ELSE 28)
    ELSE IF m \in {4, 6, 9, 11} THEN 30 ELSE 31

\* the day number of the date y-m-d (datetime's proleptic Gregorian calendar)
DaysFromCivil(y, m, d) ==
    LET yy == IF m <= 2 THEN y - 1 ELSE y
        era == yy \div 400
        yoe == yy - era * 400
        mp == IF m > 2 THEN m - 3 ELSE m + 9
        doy == (153 * mp + 2) \div 5 + d - 1
        doe == yoe * 365 + yoe \div 4 - yoe \div 100 + doy
    IN  era * 146097 + doe - 719468

\* datetime.month of a day number
MonthOf(day) ==
    LET z == day + 719468
        era == z \div 146097
        doe == z - era * 146097
        yoe == (doe - doe \div 1460 + doe \div 36524 - doe \div 146096) \div 365
        doy == doe - (365 * yoe + yoe \div 4 - yoe \div 100)
        mp == (5 * doy + 2) \div 153
    IN  IF mp < 10 THEN mp + 3 ELSE mp - 9

\* datetime(y, m, d), raising when there is no such day
DateOf(y, m, d) ==
    IF y >= 1 /\ m \in 1..12 /\ d >= 1 /\ d <= DaysInMonth(y, m)
    THEN Returned(DaysFromCivil(y, m, d)) ELSE Raised

\* the year, month and day texts of a date: %Y is 4 digits, %m and %d 1 or 2
DateOfTexts(ys, ms, ds) ==
    IF /\ Len(ys) = 4 /\ AllDigits(ys)
       /\ Len(ms) \in 1..2 /\ AllDigits(ms)
       /\ Len(ds) \in 1..2 /\ AllDigits(ds)
    THEN DateOf(DigitsVal(ys), DigitsVal(ms), DigitsVal(ds)) ELSE Raised

DateOfParts(parts, yearFirst) ==
    IF Len(parts) # 3 THEN Raised
    ELSE IF yearFirst THEN DateOfTexts(parts[1], parts[2], parts[3])
    ELSE DateOfTexts(parts[3], parts[1], parts[2])

\* datetime.strptime(s, fmt) for the formats the code uses: three numeric
\* parts joined by sep, the 4-digit year first (%Y sep %m sep %d) or last
\* (%m sep %d sep %Y); anything else raises ValueError.  val is the day number.
StrpTime(s, sep, yearFirst) == DateOfParts(Split(s, sep), yearFirst)

\* the formats of dc_property_processor.py lines 221 and 374, in order:
\* '%m/%d/%Y', '%Y-%m-%d', '%m-%d-%Y', '%Y/%m/%d'
DateFormats ==
    << [sep |-> "/", yearFirst |-> FALSE], [sep |-> "-", yearFirst |-> TRUE],
       [sep |-> "-", yearFirst |-> FALSE], [sep |-> "/", yearFirst |-> TRUE] >>

\* for fmt in [...]: try: strptime ... break / except: continue
RECURSIVE TryFormats(_, _)
BreakOrContinue(parsed, s, i) == IF parsed.ok THEN parsed ELSE TryFormats(s, i + 1)

TryFormats(s, i) ==
    IF i > Len(DateFormats) THEN Raised
    ELSE BreakOrContinue(StrpTime(s, DateFormats[i].sep, DateFormats[i].yearFirst), s, i)

ParseDate(s) == TryFormats(s, 1)

\* years * 1461, for years = days / 365.25
YearsUnit == 1461

DefaultYearsN == 36525

Max(a, b) == IF a >= b THEN a ELSE b

Min(a, b) == IF a <= b THEN a ELSE b

\* max(0, (now - sale_date).days / 365.25)
YearsBetween(now, day) == Max(0, 4 * (now - day))

\* an unparsed date counted as a sale of today
YearsOfParsedNoDefault(parsed, now) ==
    IF parsed.ok THEN YearsBetween(now, parsed.val) ELSE 0

\* years_since_sale stays 25.0 unless a format parsed
YearsOfParsed(parsed, now) ==
    IF parsed.ok THEN YearsBetween(now, parsed.val) ELSE DefaultYearsN

\* dc_property_processor.py main, lines 367-382, sale_date_str = get_value('SALEDATE')
enh_years_since_sale(sale_date_str, now) ==
    IF sale_date_str # "" THEN YearsOfParsed(ParseDate(sale_date_str), now)
    ELSE DefaultYearsN

\* app.py calculate_years_since_sale
calculate_years_since_sale(sale_date, now) ==
    IF IsNa(sale_date) \/ (sale_date.k = "str" /\ sale_date.s = "")
    THEN DefaultYearsN
    ELSE IF sale_date.k = "str"
         THEN YearsOfParsed(StrpTime(Split(sale_date.s, " ")[1], "/", TRUE), now)
         ELSE YearsBetween(now, 0)  \* pd.to_datetime(number): the epoch

(***************************************************************************)
(* Enhanced model: multipliers (in twentieths)                             *)
(***************************************************************************)
\* get_seasonal_multiplier: seasonal_factors[current_month]
SeasonalFactors == <<15, 16, 23, 25, 26, 24, 22, 21, 23, 20, 17, 14>>

get_seasonal_multiplier(now) ==
    LET current_month == MonthOf(now) IN
    IF current_month \in 1..12 THEN SeasonalFactors[current_month] ELSE 20

\* every ward treated as unknown
ward_multiplier_neutral(ward) == 20

\* dc_property_processor.py get_ward_risk_multiplier, in twentieths
get_ward_risk_multiplier(ward) ==
    LET ward_str == Strip(ward) IN
    CASE ward_str = "1" -> 22
      [] ward_str = "2" -> 19
      [] ward_str = "3" -> 18
      [] ward_str = "4" -> 23
      [] ward_str = "5" -> 24
      [] ward_str = "6" -> 21
      [] ward_str = "7" -> 25
      [] ward_str = "8" -> 26
      [] ward_str = "" -> 20
      [] OTHER -> 20

get_property_type_multiplier(prop_type) ==
    LET prop_type_upper == Upper(prop_type) IN
    IF AnyIn(<<"MULTI", "APARTMENT", "CONDO">>, prop_type_upper) THEN 23
    ELSE IF AnyIn(<<"COMMERCIAL", "OFFICE", "RETAIL">>, prop_type_upper) THEN 25
    ELSE IF AnyIn(<<"SINGLE", "RESIDENTIAL">>, prop_type_upper) THEN 20
    ELSE 21

(***************************************************************************)
(* Enhanced model: factor scorers (results in thousandths)                 *)
(***************************************************************************)
\* a ratio n/d with d > 0
Ratio(n, d) == [n |-> n, d |-> d]

\* r > pct / 100
RatioGt(r, pct) == r.n * 100 > pct * r.d

\* the ratio with the guard on the assessment left out: a zero assessment
\* falls through to the cap of min(..., 1.0)
enh_debt_ratio_unguarded(assessment, total_balance) ==
    IF total_balance < assessment THEN Ratio(total_balance, assessment) ELSE Ratio(1, 1)

\* dc_property_processor.py main, lines 385-387
enh_debt_ratio(assessment, total_balance) ==
    IF assessment > 0
    THEN (IF total_balance < assessment THEN Ratio(total_balance, assessment)
          ELSE Ratio(1, 1))
    ELSE Ratio(0, 1)

calculate_financial_pressure_score(assessment, debt_amount, debt_ratio) ==
    LET p1 == IF RatioGt(debt_ratio, 50) THEN 4
              ELSE IF RatioGt(debt_ratio, 30) THEN 3
              ELSE IF RatioGt(debt_ratio, 15) THEN 2
              ELSE IF RatioGt(debt_ratio, 5) THEN 1 ELSE 0
        p2 == IF debt_amount > 50000 THEN 3
              ELSE IF debt_amount > 25000 THEN 2
              ELSE IF debt_amount > 10000 THEN 1 ELSE 0
        p3 == IF assessment > 800000 /\ debt_amount > 15000 THEN 1 ELSE 0
    IN  Min(p1 + p2 + p3, 7)

\* min(financial_pressure_points / 7 * 0.35, 0.35)
financial_pressure_factor_of(points) == Min((points * 350) \div 7, 350)

EstateIndicators == <<"ESTATE", "DECEASED", "HEIRS", "HEIR", "DECD", "ET AL">>

TrustIndicators ==
    <<"TRUST", "TRUSTEE", "REVOCABLE", "IRREVOCABLE", "TR ", " TR", "TTEE">>

CorporateIndicators ==
    <<"LLC", "INC", "CORP", "COMPANY", "CO ", "LTD", "LIMITED", "PROPERTIES",
      "HOLDINGS", "INVESTMENTS", "VENTURES", "GROUP", "PARTNERS">>

MultiOwnerIndicators == <<"&", " AND ", " + ", "ET UX", "ET VIR", "ETAL", "ET AL">>

PartnershipIndicators == <<"PARTNERSHIP", "PARTNERS", "LP ", " LP", "LLP">>

\* the factors list of calculate_ownership_complexity_factor, as a set
ownership_factors_of(owner_name) ==
    LET owner_upper == Upper(owner_name) IN
    (IF AnyIn(EstateIndicators, owner_upper) THEN {"estate"} ELSE {})
    \cup (IF AnyIn(TrustIndicators, owner_upper) THEN {"trust"} ELSE {})
    \cup (IF AnyIn(CorporateIndicators, owner_upper) THEN {"corporate"} ELSE {})
    \cup (IF AnyIn(MultiOwnerIndicators, owner_upper) THEN {"multiple_owners"} ELSE {})
    \cup (IF AnyIn(PartnershipIndicators, owner_upper) THEN {"partnership"} ELSE {})

\* the sum of the matched factors with the final min(complexity_score, 0.35)
\* left out
ComplexityUncapped(f) ==
    (IF "estate" \in f THEN 250 ELSE 0)
    + (IF "trust" \in f THEN 200 ELSE 0)
    + (IF "corporate" \in f THEN 150 ELSE 0)
    + (IF "multiple_owners" \in f THEN 100 ELSE 0)
    + (IF "partnership" \in f THEN 180 ELSE 0)

\* complexity_score of the matched factors, capped
ComplexityOf(f) ==
    Min((IF "estate" \in f THEN 250 ELSE 0)
        + (IF "trust" \in f THEN 200 ELSE 0)
        + (IF "corporate" \in f THEN 150 ELSE 0)
        + (IF "multiple_owners" \in f THEN 100 ELSE 0)
        + (IF "partnership" \in f THEN 180 ELSE 0), 350)

\* the complexity score of calculate_ownership_complexity_factor
calculate_ownership_complexity_factor(owner_name) ==
    ComplexityOf(ownership_factors_of(owner_name))

\* the amplification by years since the sale, shared by the shock scorers
Amplify(factor, yearsN) ==
    IF yearsN > 20 * YearsUnit THEN (factor * 14) \div 10
    ELSE IF yearsN > 15 * YearsUnit THEN (factor * 12) \div 10
    ELSE IF yearsN > 10 * YearsUnit THEN (factor * 11) \div 10
    ELSE factor

\* the assessment tiers of lines 171-180 (and 67-76)
AssessmentTier(assessment) ==
    IF assessment > 1500000 THEN 250
    ELSE IF assessment > 1000000 THEN 200
    ELSE IF assessment > 750000 THEN 150
    ELSE IF assessment > 500000 THEN 100
    ELSE IF assessment > 250000 THEN 50 ELSE 0

\* the tiers of the assessment increase, lines 160-168
\* the tiers applied to the size of the change, a decrease counted as well
IncreaseTierAbsolute(old_total, new_total) ==
    IF RatioGt(Ratio(new_total - old_total, old_total), 30)
       \/ RatioGt(Ratio(old_total - new_total, old_total), 30) THEN 250
    ELSE IF RatioGt(Ratio(new_total - old_total, old_total), 20)
            \/ RatioGt(Ratio(old_total - new_total, old_total), 20) THEN 200
    ELSE IF RatioGt(Ratio(new_total - old_total, old_total), 10)
            \/ RatioGt(Ratio(old_total - new_total, old_total), 10) THEN 150
    ELSE IF RatioGt(Ratio(new_total - old_total, old_total), 5)
            \/ RatioGt(Ratio(old_total - new_total, old_total), 5) THEN 100 ELSE 0

\* lines 160-168: the tiers of assessment_increase_ratio
IncreaseTier(old_total, new_total) ==
    IF RatioGt(Ratio(new_total - old_total, old_total), 30) THEN 250
    ELSE IF RatioGt(Ratio(new_total - old_total, old_total), 20) THEN 200
    ELSE IF RatioGt(Ratio(new_total - old_total, old_total), 10) THEN 150
    ELSE IF RatioGt(Ratio(new_total - old_total, old_total), 5) THEN 100 ELSE 0

calculate_assessment_shock_factor_advanced(old_total, new_total, assessment, yearsN) ==
    Min(Amplify(IF old_total # 0 /\ new_total # 0 /\ old_total > 0
                THEN IncreaseTier(old_total, new_total)
                ELSE AssessmentTier(assessment), yearsN), 350)

TaxSaleYes == {"Y", "YES", "1", "TRUE"}

\* the tiers of the count with every test strict: one tax sale earns nothing
TaxSaleTierStrict(tax_sale_count) ==
    IF tax_sale_count > 3 THEN 300
    ELSE IF tax_sale_count > 2 THEN 250
    ELSE IF tax_sale_count > 1 THEN 200 ELSE 0

\* the tiers of the count of tax sale flags
TaxSaleTier(tax_sale_count) ==
    IF tax_sale_count >= 3 THEN 300
    ELSE IF tax_sale_count >= 2 THEN 250
    ELSE IF tax_sale_count >= 1 THEN 200 ELSE 0

\* row[field] of the five tax sale fields, txsale a sequence of cells
calculate_tax_sale_risk_factor(txsale) ==
    Min(TaxSaleTier(Cardinality({i \in 1..Len(txsale) :
                                    Upper(StrOf(txsale[i])) \in TaxSaleYes})), 300)

\* the tiers of days_since_payment; no format parsed: risk_factor stays 0
PaymentTier(parsed, now) ==
    IF ~parsed.ok THEN 0
    ELSE IF now - parsed.val > 730 THEN 250
    ELSE IF now - parsed.val > 365 THEN 200
    ELSE IF now - parsed.val > 180 THEN 150
    ELSE IF now - parsed.val > 90 THEN 100 ELSE 0

\* last_payment_date is the string get_value returned; now is datetime.now()
\* as read inside the scorer
calculate_payment_pattern_risk(last_payment_date, total_balance, now) ==
    Min(IF last_payment_date # "" /\ last_payment_date # "nan"
        THEN PaymentTier(ParseDate(last_payment_date), now)
        ELSE (IF total_balance > 5000 THEN 150
              ELSE IF total_balance > 1000 THEN 100 ELSE 0), 250)

calculate_homestead_protection_factor(homestead_code) ==
    LET homestead_str == Strip(homestead_code) IN
    IF homestead_str \in {"1", "HS"} THEN -100
    ELSE IF homestead_str \in {"2", "SENIOR"} THEN -150
    ELSE 0

calculate_vacant_property_risk(vacant_land_use) ==
    IF Upper(vacant_land_use) = "Y" THEN 200 ELSE 0

\* the tiers of tax_class_num; float(tax_class) raised: nothing is added
TaxClassTier(f) ==
    IF ~f.ok THEN 0
    ELSE IF f.val >= 3 THEN 200
    ELSE IF f.val >= 2 THEN 150 ELSE 0

calculate_mixed_use_complexity(mixed_use_flag, tax_class) ==
    Min(IF Upper(mixed_use_flag) = "Y"
        THEN 100 + TaxClassTier(IF tax_class = "" THEN Returned(1)
                                ELSE ParseFloat(tax_class))
        ELSE 0, 250)

calculate_market_pressure_factor(assessment, yearsN, sale_price) ==
    Min(IF sale_price # 0 /\ sale_price > 0 /\ assessment > 0
        THEN (IF assessment > 4 * sale_price THEN 250
              ELSE IF assessment > 3 * sale_price THEN 200
              ELSE IF assessment > 2 * sale_price THEN 150
              ELSE IF 2 * assessment > 3 * sale_price THEN 100 ELSE 0)
        ELSE (IF yearsN > 25 * YearsUnit
              THEN (IF assessment > 1000000 THEN 200
                    ELSE IF assessment > 500000 THEN 150
                    ELSE IF assessment > 250000 THEN 100 ELSE 0)
              ELSE 0), 300)

(***************************************************************************)
(* Enhanced model: composite probability, category, record                 *)
(***************************************************************************)
\* one in the unit of the enhanced probability: thousandths * twentieths^3
ProbUnit == 8000000

\* base_probability = 0.18
BaseProbability == 180

\* the clamp with its floor left out: min(final_probability, 0.95) alone
enh_clamp_without_floor(p) == Min(p, (95 * ProbUnit) \div 100)

\* lines 459: max(min(final_probability, 0.95), 0.10)
enh_clamp(p) == Max(Min(p, (95 * ProbUnit) \div 100), (10 * ProbUnit) \div 100)

\* lines 462-471, p in 1/ProbUnit
enh_risk_category(p) ==
    IF p * 100 >= 75 * ProbUnit THEN "Extremely High"
    ELSE IF p * 100 >= 55 * ProbUnit THEN "Very High"
    ELSE IF p * 100 >= 35 * ProbUnit THEN "High"
    ELSE IF p * 100 >= 20 * ProbUnit THEN "Moderate"
    ELSE "Low"

\* round(x, 3) of x = p / unit, in thousandths (ties to even)
Round3(p, unit) ==
    LET u == unit \div 1000
        q == p \div u
        r == p % u
    IN  IF 2 * r > u THEN q + 1
        ELSE IF 2 * r < u THEN q
        ELSE IF q % 2 = 0 THEN q ELSE q + 1

\* the label with the lower extreme band left out
prediction_confidence_upper_only(p) ==
    IF p * 100 > 60 * ProbUnit THEN "High" ELSE "Medium"

\* line 521
prediction_confidence_of(p) ==
    IF p * 100 > 60 * ProbUnit \/ p * 100 < 25 * ProbUnit THEN "High" ELSE "Medium"

\* line 363: the row is skipped
enh_skipped(row) ==
    /\ get_value(row.SSL, "") = ""
    /\ get_value(row.PREMISEADD, "") = ""
    /\ get_value(row.OWNERNAME, "") = ""
    /\ get_numeric_value(row.ASSESSMENT, 0) = 0

\* lines 354-398: the fields read from the row; now is datetime.now() while
\* the row is processed
enh_fields(row, now) ==
    [ ssl |-> get_value(row.SSL, ""),
      premise_add |-> get_value(row.PREMISEADD, ""),
      owner_name |-> get_value(row.OWNERNAME, ""),
      assessment |-> get_numeric_value(row.ASSESSMENT, 0),
      total_balance |-> get_numeric_value(row.TOTBALAMT, 0),
      ward |-> get_value(row.PRMS_WARD, ""),
      prop_type |-> get_value(row.PROPTYPE, "Unknown"),
      sale_price |-> get_numeric_value(row.SALEPRICE, 0),
      years_since_sale |-> enh_years_since_sale(get_value(row.SALEDATE, ""), now),
      old_total |-> get_numeric_value(row.OLDTOTAL, 0),
      new_total |-> get_numeric_value(row.NEWTOTAL, 0),
      homestead_code |-> get_value(row.HSTDCODE, ""),
      vacant_land_use |-> get_value(row.VACLNDUSE, ""),
      mixed_use_flag |-> get_value(row.MIXEDUSE, ""),
      tax_class |-> get_value(row.CLASSTYPE, ""),
      last_payment_date |-> get_value(row.LASTPAYDT, ""),
      txsale |-> row.TXSALE ]

\* lines 400-434: the factors and multipliers of the fields f
enh_factors(f, debt_ratio, now) ==
    [ financial_pressure_points |->
          calculate_financial_pressure_score(f.assessment, f.total_balance, debt_ratio),
      ownership_complexity_factor |-> calculate_ownership_complexity_factor(f.owner_name),
      ownership_factors |-> ownership_factors_of(f.owner_name),
      assessment_shock_factor |->
          calculate_assessment_shock_factor_advanced(f.old_total, f.new_total,
                                                     f.assessment, f.years_since_sale),
      market_pressure_factor |->
          calculate_market_pressure_factor(f.assessment, f.years_since_sale, f.sale_price),
      tax_sale_risk_factor |-> calculate_tax_sale_risk_factor(f.txsale),
      payment_pattern_risk |->
          calculate_payment_pattern_risk(f.last_payment_date, f.total_balance, now),
      homestead_protection |-> calculate_homestead_protection_factor(f.homestead_code),
      vacant_property_risk |-> calculate_vacant_property_risk(f.vacant_land_use),
      mixed_use_complexity |-> calculate_mixed_use_complexity(f.mixed_use_flag, f.tax_class),
      ward_multiplier |-> get_ward_risk_multiplier(f.ward),
      prop_type_multiplier |-> get_property_type_multiplier(f.prop_type) ]

\* lines 437-459: final_probability of the factors x
enh_final_probability(x, seasonal_multiplier) ==
    enh_clamp((BaseProbability
               + financial_pressure_factor_of(x.financial_pressure_points)
               + x.ownership_complexity_factor + x.assessment_shock_factor
               + x.market_pressure_factor + x.tax_sale_risk_factor
               + x.payment_pattern_risk + x.vacant_property_risk
               + x.mixed_use_complexity + x.homestead_protection)
              * x.ward_multiplier * x.prop_type_multiplier * seasonal_multiplier)

\* lines 461-529: the record; i is the row's position in df
enh_emit(i, f, debt_ratio, x, seasonal_multiplier, final_probability) ==
    [ row |-> i,
      SSL |-> f.ssl,
      PREMISEADD |-> f.premise_add,
      OWNERNAME |-> f.owner_name,
      final_probability |-> final_probability,
      listing_probability |-> Round3(final_probability, ProbUnit),
      risk_category |-> enh_risk_category(final_probability),
      assessment |-> f.assessment,
      total_balance |-> f.total_balance,
      PRMS_WARD |-> f.ward,
      PROPTYPE |-> f.prop_type,
      years_since_sale |-> f.years_since_sale,
      debt_ratio |-> debt_ratio,
      financial_distress_score |-> Min(x.financial_pressure_points, 10),
      ownership_complexity_score |-> Min(Cardinality(x.ownership_factors) * 2, 10),
      assessment_shock_score |-> Min(x.assessment_shock_factor \div 100, 10),
      corporate_owner |-> "corporate" \in x.ownership_factors,
      trust_ownership |-> "trust" \in x.ownership_factors,
      estate_ownership |-> "estate" \in x.ownership_factors,
      ward_multiplier |-> x.ward_multiplier,
      prop_type_multiplier |-> x.prop_type_multiplier,
      seasonal_multiplier |-> seasonal_multiplier,
      financial_pressure_factor |-> financial_pressure_factor_of(x.financial_pressure_points),
      ownership_complexity_factor |-> x.ownership_complexity_factor,
      assessment_shock_factor |-> x.assessment_shock_factor,
      market_pressure_factor |-> x.market_pressure_factor,
      tax_sale_risk_factor |-> x.tax_sale_risk_factor,
      payment_pattern_risk |-> x.payment_pattern_risk,
      homestead_protection |-> x.homestead_protection,
      vacant_property_risk |-> x.vacant_property_risk,
      mixed_use_complexity |-> x.mixed_use_complexity,
      prediction_confidence |-> prediction_confidence_of(final_probability) ]

enh_scored(i, f, debt_ratio, x, seasonal_multiplier) ==
    enh_emit(i, f, debt_ratio, x, seasonal_multiplier,
             enh_final_probability(x, seasonal_multiplier))

enh_with_ratio(i, f, debt_ratio, now, seasonal_multiplier) ==
    enh_scored(i, f, debt_ratio, enh_factors(f, debt_ratio, now), seasonal_multiplier)

enh_of_fields(i, f, now, seasonal_multiplier) ==
    enh_with_ratio(i, f, enh_debt_ratio(f.assessment, f.total_balance), now,
                   seasonal_multiplier)

\* lines 353-531: the record of one row of df; seasonal_multiplier is the
\* value captured before the loop
enh_record(row, i, now, seasonal_multiplier) ==
    enh_of_fields(i, enh_fields(row, now), now, seasonal_multiplier)

(***************************************************************************)
(* Basic model (app.py)                                                    *)
(***************************************************************************)
BasicCorporate ==
    <<"LLC", "INC", "CORP", "COMPANY", "PROPERTIES", "HOLDINGS", "VENTURES", "GROUP">>

BasicTrust == <<"TRUST", "TRUSTEE", "REVOCABLE", "IRREVOCABLE">>

BasicEstate == <<"ESTATE", "DECEASED", "HEIRS", "SUCCESSION">>

\* determine_ownership_type: <<corporate, trust, estate>>
determine_ownership_type(owner_name) ==
    IF IsNa(owner_name) THEN <<FALSE, FALSE, FALSE>>
    ELSE LET owner_upper == Upper(StrOf(owner_name)) IN
         << AnyIn(BasicCorporate, owner_upper), AnyIn(BasicTrust, owner_upper),
            AnyIn(BasicEstate, owner_upper) >>

\* total_balance / assessment, no cap (line 221)
basic_debt_ratio(assessment, total_balance) ==
    IF assessment > 0 THEN Ratio(total_balance, assessment) ELSE Ratio(0, 1)

\* the debt ratio tiers of lines 82-87
DistressRatioTier(debt_ratio) ==
    IF RatioGt(debt_ratio, 15) THEN 3
    ELSE IF RatioGt(debt_ratio, 10) THEN 2
    ELSE IF RatioGt(debt_ratio, 5) THEN 1 ELSE 0

\* the prior year tiers of lines 96-99
PriorYearTier(prior_year_balances) ==
    IF prior_year_balances >= 5 THEN 2
    ELSE IF prior_year_balances >= 3 THEN 1 ELSE 0

\* lines 78-110, for the cleaned assessment and balance
DistressOf(row, assessment, total_balance) ==
    IF assessment > 0
    THEN DistressRatioTier(Ratio(total_balance, assessment))
         + PriorYearTier(Cardinality({i \in 1..Len(row.PYBAL) :
                                         clean_currency_field(row.PYBAL[i]) > 0}))
         + (IF assessment > 2000000 THEN 1 ELSE 0)
         + (IF \/ clean_currency_field(row.CYPEN[1])
                    + clean_currency_field(row.CYPEN[2]) > 0
               \/ clean_currency_field(row.CYINT[1])
                    + clean_currency_field(row.CYINT[2]) > 0
            THEN 1 ELSE 0)
    ELSE 0

calculate_financial_distress_score(row) ==
    Min(DistressOf(row, clean_currency_field(row.ASSESSMENT),
                   clean_currency_field(row.TOTBALAMT)), 8)

\* lines 120-125, t = <<corporate, trust, estate>>
OwnerTypeScore(t) == IF t[3] THEN 3 ELSE IF t[2] THEN 2 ELSE IF t[1] THEN 1 ELSE 0

\* lines 131-132
AbsenteeScore(premise_addr, mailing_addr) ==
    IF premise_addr # "" /\ mailing_addr # "" /\ ~Contains(mailing_addr, premise_addr)
    THEN 1 ELSE 0

\* lines 135-137
OutOfStateScore(city_state_zip) ==
    IF ~Contains(city_state_zip, "DC") /\ city_state_zip # "" THEN 1 ELSE 0

calculate_ownership_complexity_score(row) ==
    Min(OwnerTypeScore(determine_ownership_type(row.OWNERNAME))
        + AbsenteeScore(Upper(StrOf(row.PREMISEADD)), Upper(StrOf(row.ADDRESS1)))
        + OutOfStateScore(Upper(StrOf(row.CITYSTZIP))), 5)

\* lines 146-158, for the cleaned totals
ShockScoreOf(old_total, new_total) ==
    IF old_total > 0 /\ new_total > old_total
    THEN (IF RatioGt(Ratio(new_total - old_total, old_total), 50) THEN 4
          ELSE IF RatioGt(Ratio(new_total - old_total, old_total), 30) THEN 3
          ELSE IF RatioGt(Ratio(new_total - old_total, old_total), 20) THEN 2
          ELSE IF RatioGt(Ratio(new_total - old_total, old_total), 10) THEN 1 ELSE 0)
    ELSE 0

calculate_assessment_shock_score(row) ==
    ShockScoreOf(clean_currency_field(row.OLDTOTAL), clean_currency_field(row.NEWTOTAL))

\* one in the unit of the basic probability
BasicUnit == 10000

\* line 197: min(max(base_probability, 0.05), 0.95)
basic_clamp(p) == Min(Max(p, (5 * BasicUnit) \div 100), (95 * BasicUnit) \div 100)

\* lines 173-184
TimeProb(yearsN) ==
    IF yearsN > 20 * YearsUnit THEN 2000
    ELSE IF yearsN > 15 * YearsUnit THEN 1600
    ELSE IF yearsN > 10 * YearsUnit THEN 1200
    ELSE IF yearsN > 5 * YearsUnit THEN 800
    ELSE IF yearsN < 2 * YearsUnit THEN 200
    ELSE 400

\* lines 189-192
DebtBoost(debt_ratio) ==
    IF RatioGt(debt_ratio, 10) THEN 1500
    ELSE IF RatioGt(debt_ratio, 5) THEN 1000 ELSE 0

\* min(score / top, 1.0) * weight, weight in 1/BasicUnit
Weighted(score, top, weight) == (Min(score, top) * weight) \div top

calculate_listing_probability(financial_score, ownership_score, assessment_score, yearsN, debt_ratio) ==
    basic_clamp(Weighted(financial_score, 8, 4000) + Weighted(ownership_score, 5, 2500)
                + Weighted(assessment_score, 4, 1500) + TimeProb(yearsN)
                + DebtBoost(debt_ratio))

\* the ladder with its two upper comparisons tested in the wrong order
categorize_risk_misordered(p) ==
    IF p * 100 >= 60 * BasicUnit THEN "Very High"
    ELSE IF p * 100 >= 80 * BasicUnit THEN "Extremely High"
    ELSE IF p * 100 >= 40 * BasicUnit THEN "Moderate"
    ELSE IF p * 100 >= 20 * BasicUnit THEN "High"
    ELSE "Low"

\* app.py categorize_risk, p in 1/BasicUnit
categorize_risk(p) ==
    IF p * 100 >= 80 * BasicUnit THEN "Extremely High"
    ELSE IF p * 100 >= 60 * BasicUnit THEN "Very High"
    ELSE IF p * 100 >= 40 * BasicUnit THEN "High"
    ELSE IF p * 100 >= 20 * BasicUnit THEN "Moderate"
    ELSE "Low"

\* lines 246-268: the record
basic_emit(row, i, assessment, total_balance, debt_ratio, years_since_sale, sc, t, listing_probability) ==
    [ row |-> i,
      SSL |-> StrOf(row.SSL),
      PREMISEADD |-> StrOf(row.PREMISEADD),
      OWNERNAME |-> StrOf(row.OWNERNAME),
      final_probability |-> listing_probability,
      listing_probability |-> Round3(listing_probability, BasicUnit),
      risk_category |-> categorize_risk(listing_probability),
      assessment |-> assessment,
      total_balance |-> total_balance,
      PRMS_WARD |-> StrOf(row.PRMS_WARD),
      PROPTYPE |-> StrOf(row.PROPTYPE),
      years_since_sale |-> years_since_sale,
      debt_ratio |-> debt_ratio,
      financial_distress_score |-> sc[1],
      ownership_complexity_score |-> sc[2],
      assessment_shock_score |-> sc[3],
      corporate_owner |-> t[1],
      trust_ownership |-> t[2],
      estate_ownership |-> t[3] ]

\* lines 225-236, sc = <<financial_score, ownership_score, assessment_score>>
basic_scored(row, i, assessment, total_balance, debt_ratio, years_since_sale, sc) ==
    basic_emit(row, i, assessment, total_balance, debt_ratio, years_since_sale, sc,
               determine_ownership_type(row.OWNERNAME),
               calculate_listing_probability(sc[1], sc[2], sc[3], years_since_sale,
                                             debt_ratio))

\* lines 219-227
basic_cleaned(row, i, assessment, total_balance, now) ==
    basic_scored(row, i, assessment, total_balance,
                 basic_debt_ratio(assessment, total_balance),
                 calculate_years_since_sale(row.SALEDATE, now),
                 << calculate_financial_distress_score(row),
                    calculate_ownership_complexity_score(row),
                    calculate_assessment_shock_score(row) >>)

\* process_property_data, lines 217-270: the record of one row; now is
\* self.current_date
basic_record(row, i, now) ==
    basic_cleaned(row, i, clean_currency_field(row.ASSESSMENT),
                  clean_currency_field(row.TOTBALAMT), now)

(***************************************************************************)
(* Result sink                                                             *)
(***************************************************************************)
\* the insertion that puts an equal key before the records already placed
RECURSIVE InsertDescUnstable(_, _)
InsertDescUnstable(x, sorted) ==
    IF Len(sorted) = 0 THEN <<x>>
    ELSE IF Head(sorted).listing_probability > x.listing_probability
         THEN <<Head(sorted)>> \o InsertDescUnstable(x, Tail(sorted))
         ELSE <<x>> \o sorted

\* x goes after every element whose key is >= its own: equal keys keep
\* their order of arrival
RECURSIVE InsertDesc(_, _)
InsertDesc(x, sorted) ==
    IF Len(sorted) = 0 THEN <<x>>
    ELSE IF Head(sorted).listing_probability >= x.listing_probability
         THEN <<Head(sorted)>> \o InsertDesc(x, Tail(sorted))
         ELSE <<x>> \o sorted

\* sorted(data, key=lambda x: x['listing_probability'], reverse=True), and
\* list.sort with the same arguments: Python's sort is stable, also reversed
RECURSIVE SortDesc(_)
SortDesc(data) ==
    IF Len(data) = 0 THEN <<>>
    ELSE InsertDesc(data[Len(data)], SortDesc(SubSeq(data, 1, Len(data) - 1)))

(***************************************************************************)
(* Batch tier assigner (spec section 4.5; the repository's files hold no   *)
(* code for it)                                                            *)
(***************************************************************************)
\* the p-th percentile of the scores, p in percent: the lowest score that at
\* least p percent of the batch do not exceed
Percentile(scores, p) ==
    CHOOSE v \in {scores[k] : k \in 1..Len(scores)} :
        /\ Cardinality({k \in 1..Len(scores) : scores[k] <= v}) * 100 >= p * Len(scores)
        /\ \A w \in {scores[k] : k \in 1..Len(scores)} :
               w < v => Cardinality({k \in 1..Len(scores) : scores[k] <= w}) * 100
                           < p * Len(scores)

\* the comparison against the two thresholds, with a strict test in place of >=
tier_of_strict(score, p95, p80) ==
    IF score > p95 THEN "High" ELSE IF score > p80 THEN "Medium" ELSE "Low"

\* "High" / "Medium" / "Low" by comparison against the two thresholds; ties
\* go to the higher tier
tier_of(score, p95, p80) ==
    IF score >= p95 THEN "High" ELSE IF score >= p80 THEN "Medium" ELSE "Low"

\* assign_tiers(scored_records): a batch of size 0 yields no thresholds and no
\* tier computation
assign_tiers(scores) ==
    IF Len(scores) = 0 THEN [thresholds |-> <<>>, records |-> <<>>]
    ELSE [thresholds |-> <<Percentile(scores, 95), Percentile(scores, 80)>>,
          records |-> [k \in 1..Len(scores) |->
                          [score |-> scores[k],
                           tier |-> tier_of(scores[k], Percentile(scores, 95),
                                            Percentile(scores, 80))]]]

(***************************************************************************)
(* Inputs                                                                  *)
(***************************************************************************)
NoCells(n) == [i \in 1..n |-> NaN]

\* a row with an identifier, an address and an owner, and nothing else
BaseRow ==
    [ SSL |-> Txt("0001"), PREMISEADD |-> Txt("1 MAIN ST NW"),
      OWNERNAME |-> Txt("JOHN SMITH"), ADDRESS1 |-> NaN, CITYSTZIP |-> NaN,
      ASSESSMENT |-> NaN, TOTBALAMT |-> NaN, PRMS_WARD |-> NaN, PROPTYPE |-> NaN,
      SALEDATE |-> NaN, SALEPRICE |-> NaN, OLDTOTAL |-> NaN, NEWTOTAL |-> NaN,
      HSTDCODE |-> NaN, VACLNDUSE |-> NaN, MIXEDUSE |-> NaN, CLASSTYPE |-> NaN,
      LASTPAYDT |-> NaN, TXSALE |-> NoCells(5), PYBAL |-> NoCells(10),
      CYPEN |-> NoCells(2), CYINT |-> NoCells(2) ]

\* a row with nothing at all
BlankRow == [BaseRow EXCEPT !.SSL = NaN, !.PREMISEADD = NaN, !.OWNERNAME = NaN]

\* the day most runs start
Day0 == DaysFromCivil(2026, 6, 15)

\* the 15th of month m of 2026
MidMonth(m) == DaysFromCivil(2026, m, 15)

Pad2(n) == IF n < 10 THEN "0" \o NatToStr(n) ELSE NatToStr(n)

Amounts == {NaN, Num(0), Num(5000), Num(20000), Num(60000), Num(150000), Num(-500)}

Assessments ==
    {NaN, Num(0), Num(100000), Num(900000), Num(2000000), Num(2500000),
     Txt("$1,200"), Txt("n/a"), Num(-50000)}

\* sale dates: 20.0, 15.0+, 10.0+, 22, 25+, 30 and 1.9 years before Day0,
\* one in the future, in the four formats and with a time part
SaleDates ==
    {NaN, Txt(""), Txt("not-a-date"), Txt("06/15/2006"), Txt("2011-06-15"),
     Txt("06-14-2016"), Txt("2004/06/15"), Txt("2004/06/15 00:00:00+00"),
     Txt("06/14/2001"), Txt("1996/06/14"), Txt("2024/07/15"), Txt("07/15/2026"),
     Txt("02/30/2004")}

OwnerNames ==
    {NaN, Txt("JOHN SMITH"), Txt("ESTATE OF MARY JONES"), Txt("Smith Family Trust"),
     Txt("ACME HOLDINGS LLC"), Txt("J SMITH & M SMITH"), Txt("CAPITOL PARTNERS LP"),
     Txt("HEIRS OF J DOE TRUSTEE ET AL"), Txt("DOE ESTATE TRUST LLC & PARTNERS")}

Wards == {NaN, Txt("1"), Txt("2"), Txt("3"), Txt("4"), Txt("5"), Txt("6"),
          Txt("7"), Txt("8"), Txt(" 8 "), Txt("9")}

PropTypes ==
    {NaN, Txt("Single Family"), Txt("RESIDENTIAL"), Txt("Condo"),
     Txt("MULTI-FAMILY"), Txt("COMMERCIAL"), Txt("Retail"), Txt("VACANT LAND")}

\* payments 50, 100, 200, 400, 730, 800 days before Day0
PayDates ==
    {NaN, Txt("not-a-date"), Txt("04/26/2026"), Txt("2026-03-07"), Txt("11-27-2025"),
     Txt("2025/05/11"), Txt("06/15/2024"), Txt("04/06/2024")}

TaxSales ==
    { NoCells(5),
      <<Txt("Y"), NaN, NaN, NaN, NaN>>,
      <<Txt("N"), Txt("yes"), NaN, Txt("True"), NaN>>,
      <<Num(1), Txt("Y"), Txt("Y"), NaN, Txt("0")>>,
      <<Txt("Y"), Txt("Y"), Txt("Y"), Txt("Y"), Txt("Y")>> }

\* the row with every factor at its highest
MaxRow ==
    [BaseRow EXCEPT !.OWNERNAME = Txt("DOE ESTATE TRUST LLC & PARTNERS"),
                    !.ASSESSMENT = Num(2000000), !.TOTBALAMT = Num(1500000),
                    !.SALEDATE = Txt("1996/06/14"), !.SALEPRICE = Num(100000),
                    !.OLDTOTAL = Num(1000000), !.NEWTOTAL = Num(2000000),
                    !.VACLNDUSE = Txt("Y"), !.MIXEDUSE = Txt("Y"),
                    !.CLASSTYPE = Txt("3"), !.LASTPAYDT = Txt("04/06/2024"),
                    !.TXSALE = <<Txt("Y"), Txt("Y"), Txt("Y"), Txt("Y"), Txt("Y")>>,
                    !.ADDRESS1 = Txt("PO BOX 1"), !.CITYSTZIP = Txt("RENO NV 89501"),
                    !.PYBAL = [i \in 1..10 |-> Num(100)],
                    !.CYPEN = <<Num(10), NaN>>]

\* the row with every factor at its lowest
MinRow ==
    [BaseRow EXCEPT !.HSTDCODE = Txt("SENIOR"), !.SALEDATE = Txt("2024/07/15"),
                    !.ASSESSMENT = Num(100000), !.ADDRESS1 = Txt("1 MAIN ST NW"),
                    !.CITYSTZIP = Txt("WASHINGTON DC 20001")]

\* assessment 100000, balance 20000, sold 22 years before the 15th of month m
\* of 2026, an estate, ward 8
EstateRow(m) ==
    [BaseRow EXCEPT !.SSL = Txt("ESTATE-22"), !.OWNERNAME = Txt("ESTATE OF MARY JONES"),
                    !.ASSESSMENT = Num(100000), !.TOTBALAMT = Num(20000),
                    !.SALEDATE = Txt(Pad2(m) \o "/15/2004"), !.PRMS_WARD = Txt("8")]

\* one row, one factor's inputs varied at a time
FinancialRows ==
    {[BaseRow EXCEPT !.ASSESSMENT = a, !.TOTBALAMT = b, !.PYBAL = py, !.CYINT = ci] :
        a \in Assessments, b \in Amounts,
        py \in {NoCells(10), [i \in 1..10 |-> IF i <= 3 THEN Num(50) ELSE NaN]},
        ci \in {NoCells(2), <<NaN, Txt("12.50")>>}}

OwnershipRows ==
    {[BaseRow EXCEPT !.OWNERNAME = o, !.ADDRESS1 = a, !.CITYSTZIP = c] :
        o \in OwnerNames, a \in {NaN, Txt("1 Main St NW Apt 2"), Txt("PO BOX 1")},
        c \in {NaN, Txt("Washington DC 20001"), Txt("RENO NV 89501")}}

ShockRows ==
    {[BaseRow EXCEPT !.OLDTOTAL = o, !.NEWTOTAL = n, !.ASSESSMENT = a, !.SALEDATE = d] :
        o \in {NaN, Num(100000)},
        n \in {NaN, Num(90000), Num(105000), Num(110000), Num(125000), Num(130000),
               Num(140000), Num(160000)},
        a \in {Num(100000), Num(300000), Num(2000000)},
        d \in SaleDates}

MarketRows ==
    {[BaseRow EXCEPT !.SALEPRICE = p, !.ASSESSMENT = a, !.SALEDATE = d] :
        p \in {NaN, Num(0), Num(100000), Num(-1)},
        a \in {Num(100000), Num(150000), Num(160000), Num(250000), Num(350000),
               Num(400000), Num(600000), Num(1200000)},
        d \in {NaN, Txt("1996/06/14"), Txt("2004-06-15")}}

TaxSaleRows == {[BaseRow EXCEPT !.TXSALE = t] : t \in TaxSales}

PaymentRows ==
    {[BaseRow EXCEPT !.LASTPAYDT = d, !.TOTBALAMT = b] :
        d \in PayDates, b \in {Num(0), Num(1000), Num(2000), Num(20000)}}

FlagRows ==
    {[BaseRow EXCEPT !.HSTDCODE = h, !.VACLNDUSE = v] :
        h \in {NaN, Txt("1"), Txt("HS"), Txt("2"), Txt("SENIOR"), Txt("3")},
        v \in {NaN, Txt("Y"), Txt("y"), Txt("N")}}
    \cup
    {[BaseRow EXCEPT !.MIXEDUSE = x, !.CLASSTYPE = c] :
        x \in {NaN, Txt("Y"), Txt("N")},
        c \in {NaN, Txt("1"), Txt("2"), Txt("3.0"), Txt("abc")}}

\* rows with some or all of the identifying fields empty
SparseRows ==
    {[BaseRow EXCEPT !.SSL = i, !.PREMISEADD = p, !.OWNERNAME = o, !.ASSESSMENT = a,
                     !.TOTBALAMT = b] :
        i \in {NaN, Txt("0002")}, p \in {NaN, Txt("  ")}, o \in {NaN, Txt("JOHN SMITH")},
        a \in {NaN, Num(0), Num(100000)}, b \in {NaN, Num(700)}}

FactorRows ==
    FinancialRows \cup OwnershipRows \cup ShockRows \cup MarketRows \cup TaxSaleRows
    \cup PaymentRows \cup FlagRows \cup SparseRows

\* the extreme rows, the row with no factor and the estate row under every
\* ward, type and month
MultiplierScenarios ==
    {[df |-> <<[r EXCEPT !.PRMS_WARD = w, !.PROPTYPE = t]>>, start |-> MidMonth(m)] :
        r \in {MaxRow, MinRow, BaseRow}, w \in Wards, t \in PropTypes, m \in 1..12}
    \cup
    {[df |-> <<[EstateRow(m) EXCEPT !.PROPTYPE = t]>>, start |-> MidMonth(m)] :
        t \in PropTypes, m \in 1..12}

\* the rows batches of several rows are made of: the second and third
\* were sold 20.0 years before Day0, in a format each model parses
BatchRows ==
    { BlankRow, MinRow, MaxRow,
      [BaseRow EXCEPT !.ASSESSMENT = Num(900000), !.SALEDATE = Txt("06/15/2006"),
                      !.TOTBALAMT = Num(20000), !.LASTPAYDT = Txt("06/15/2024")],
      [BaseRow EXCEPT !.ASSESSMENT = Num(900000),
                      !.SALEDATE = Txt("2006/06/15 00:00:00+00")] }

RECURSIVE SeqsUpTo(_, _)
SeqsUpTo(S, n) ==
    IF n = 0 THEN {<<>>}
    ELSE LET shorter == SeqsUpTo(S, n - 1) IN
         shorter \cup {Append(q, x) : q \in {t \in shorter : Len(t) = n - 1}, x \in S}

Scenarios ==
    {[df |-> <<r>>, start |-> Day0] : r \in FactorRows}
    \cup MultiplierScenarios
    \cup {[df |-> b, start |-> Day0] : b \in SeqsUpTo(BatchRows, MaxRows)}

\* probabilities for the category ladders: every 0.05 and both sides of
\* every boundary, in 1/unit
LadderPercents == {20, 35, 40, 55, 60, 75, 80}

ProbGrid(unit) ==
    {(k * unit) \div 20 : k \in 0..20}
    \cup {(b * unit) \div 100 + e : b \in LadderPercents, e \in {-1, 1}}

\* raw currency cells
RawCurrency ==
    {NaN, Num(0), Num(1200), Num(-500), Txt(""), Txt("0"), Txt("1200"), Txt("$1,200.00"),
     Txt("-500"), Txt("($500)"), Txt("abc"), Txt("n/a"), Txt("1.2.3"), Txt("12-34"),
     Txt("-"), Txt(" 75 "), Txt("+75"), Txt("USD 3000")}

(***************************************************************************)
(* The programs                                                            *)
(***************************************************************************)
NoFile == <<"none">>

File(data) == <<"file", data>>

\* a run of one of the two pipelines over a batch
InitRun ==
    /\ \E sc \in Scenarios, v \in {"basic", "enhanced"} :
          /\ variant = v
          /\ df = sc.df
          /\ clock = sc.start
    /\ arg = <<>>
    /\ source = "present"

\* a run of one of the two pipelines with no dc_property_data.csv to read
InitMissing ==
    /\ variant \in {"basic", "enhanced"}
    /\ df = <<>>
    /\ clock = Day0
    /\ arg = <<>>
    /\ source = "absent"

\* a call of a category ladder on two probabilities
InitCategorize ==
    /\ variant = "categorize"
    /\ df = <<>>
    /\ clock = Day0
    /\ \E m \in {"basic", "enhanced"} :
          \E p, q \in ProbGrid(IF m = "basic" THEN BasicUnit ELSE ProbUnit) :
              arg = <<m, p, q>>
    /\ source = "present"

\* a call of the tier assigner on the scores of a batch, in thousandths: every
\* short batch over four scores, and ten records with the same score
InitTiers ==
    /\ variant = "assign_tiers"
    /\ df = <<>>
    /\ clock = Day0
    /\ \E b \in SeqsUpTo({100, 250, 600, 950}, MaxRows) \cup {[k \in 1..10 |-> 600]} :
          arg = <<b>>
    /\ source = "present"

\* what the scorer of the named tier ladder returns for the input x, every
\* other input of the scorer held at a value that earns nothing.  Ratios are
\* in percent, amounts in dollars, times in days.
TierContribution(kind, x) ==
    CASE kind = "debt_ratio" -> calculate_financial_pressure_score(0, 0, Ratio(x, 100))
      [] kind = "balance" -> calculate_financial_pressure_score(0, x, Ratio(0, 1))
      [] kind = "high_value" -> calculate_financial_pressure_score(x, 20000, Ratio(0, 1))
      [] kind = "assessment" -> calculate_assessment_shock_factor_advanced(0, 0, x, 0)
      [] kind = "increase_ratio" ->
             calculate_assessment_shock_factor_advanced(100, 100 + x, 0, 0)
      [] kind = "appreciation_ratio" -> calculate_market_pressure_factor(x, 0, 100)
      [] kind = "held_assessment" ->
             calculate_market_pressure_factor(x, 26 * YearsUnit, 0)
      [] kind = "days_since_payment" -> Min(PaymentTier(Returned(Day0 - x), Day0), 250)
      [] kind = "unpaid_balance" -> calculate_payment_pattern_risk("", x, Day0)
      [] kind = "tax_sale_count" ->
             calculate_tax_sale_risk_factor([i \in 1..5 |-> IF i <= x THEN Txt("Y") ELSE NaN])
      [] kind = "tax_class" -> TaxClassTier(Returned(x))
      [] kind = "basic_debt_ratio" ->
             calculate_financial_distress_score(
                 [BaseRow EXCEPT !.ASSESSMENT = Num(100), !.TOTBALAMT = Num(x)])
      [] kind = "basic_assessment" ->
             calculate_financial_distress_score([BaseRow EXCEPT !.ASSESSMENT = Num(x)])
      [] kind = "prior_year_count" ->
             calculate_financial_distress_score(
                 [BaseRow EXCEPT !.ASSESSMENT = Num(100),
                                 !.PYBAL = [i \in 1..10 |-> IF i <= x THEN Num(100)
                                                             ELSE NaN]])
      [] kind = "basic_increase_ratio" ->
             calculate_assessment_shock_score(
                 [BaseRow EXCEPT !.OLDTOTAL = Num(100), !.NEWTOTAL = Num(100 + x)])
      [] kind = "basic_debt_boost" -> DebtBoost(Ratio(x, 100))

\* a call of one scorer just below, on and just above one of its boundaries
InitBoundary ==
    /\ variant = "boundary"
    /\ df = <<>>
    /\ clock = Day0
    /\ \E kb \in {<<"debt_ratio", 5>>, <<"debt_ratio", 15>>, <<"debt_ratio", 30>>,
                   <<"debt_ratio", 50>>,
                   <<"balance", 10000>>, <<"balance", 25000>>, <<"balance", 50000>>,
                   <<"high_value", 800000>>,
                   <<"assessment", 250000>>, <<"assessment", 500000>>,
                   <<"assessment", 750000>>, <<"assessment", 1000000>>,
                   <<"assessment", 1500000>>,
                   <<"increase_ratio", 5>>, <<"increase_ratio", 10>>,
                   <<"increase_ratio", 20>>, <<"increase_ratio", 30>>,
                   <<"appreciation_ratio", 150>>, <<"appreciation_ratio", 200>>,
                   <<"appreciation_ratio", 300>>, <<"appreciation_ratio", 400>>,
                   <<"held_assessment", 250000>>, <<"held_assessment", 500000>>,
                   <<"held_assessment", 1000000>>,
                   <<"days_since_payment", 90>>, <<"days_since_payment", 180>>,
                   <<"days_since_payment", 365>>, <<"days_since_payment", 730>>,
                   <<"unpaid_balance", 1000>>, <<"unpaid_balance", 5000>>,
                   <<"tax_sale_count", 1>>, <<"tax_sale_count", 2>>,
                   <<"tax_sale_count", 3>>,
                   <<"tax_class", 2>>, <<"tax_class", 3>>,
                   <<"basic_debt_ratio", 5>>, <<"basic_debt_ratio", 10>>,
                   <<"basic_debt_ratio", 15>>,
                   <<"basic_assessment", 2000000>>,
                   <<"prior_year_count", 3>>, <<"prior_year_count", 5>>,
                   <<"basic_increase_ratio", 10>>, <<"basic_increase_ratio", 20>>,
                   <<"basic_increase_ratio", 30>>, <<"basic_increase_ratio", 50>>,
                   <<"basic_debt_boost", 5>>, <<"basic_debt_boost", 10>>} :
          arg = kb
    /\ source = "present"

\* a call of the currency normalizers on one raw cell
InitNormalize ==
    /\ variant = "normalize"
    /\ df = <<>>
    /\ clock = Day0
    /\ \E c \in RawCurrency : arg = <<c>>
    /\ source = "present"

Init ==
    /\ (InitRun \/ InitMissing \/ InitCategorize \/ InitNormalize \/ InitTiers
          \/ InitBoundary)
    /\ pc = "start"
    /\ idx = 0
    /\ records = <<>>
    /\ output = NoFile
    /\ ticks = 0
    /\ current_date = 0
    /\ seasonal = 0
    /\ res = <<>>
    /\ error = "none"

\* the wall clock passes midnight while rows remain to be processed
Tick ==
    /\ pc = "loop"
    /\ idx < Len(df)
    /\ ticks < MaxTicks
    /\ clock' = clock + 1
    /\ ticks' = ticks + 1
    /\ UNCHANGED <<variant, pc, df, idx, records, output, current_date, seasonal, arg, res, source, error>>

\* the sum of the emitted probabilities, in thousandths
RECURSIVE SumProbability(_)
SumProbability(data) ==
    IF Len(data) = 0 THEN 0
    ELSE data[Len(data)].listing_probability + SumProbability(SubSeq(data, 1, Len(data) - 1))

\* how many records of data are in category c
RiskCount(data, c) == Cardinality({k \in 1..Len(data) : data[k].risk_category = c})

\* app.py main, lines 314-316: the statistics divide by len(processed_data)
basic_summary(processed_data) ==
    IF Len(processed_data) = 0 THEN Raised
    ELSE Returned([high_risk |-> Cardinality({k \in 1..Len(processed_data) :
                                    processed_data[k].listing_probability >= 600}),
                   avg_probability |-> Ratio(SumProbability(processed_data),
                                             Len(processed_data))])

\* dc_property_processor.py main, lines 545-567: the percentages are computed
\* under "if records:"
enh_summary(data) ==
    IF Len(data) = 0 THEN Returned([total |-> 0])
    ELSE Returned([total |-> Len(data),
                   percentage |-> [c \in {data[k].risk_category : k \in 1..Len(data)} |->
                                      Ratio(RiskCount(data, c) * 100, Len(data))]])

\* dc_property_processor.py main, lines 318-330; read_csv (line 321) raises
\* FileNotFoundError when the file is absent, and nothing catches it
EnhStart ==
    /\ variant = "enhanced"
    /\ pc = "start"
    /\ IF source = "absent"
       THEN /\ error' = "FileNotFoundError"
            /\ pc' = "raised"
            /\ UNCHANGED seasonal
       ELSE /\ seasonal' = get_seasonal_multiplier(clock)
            /\ pc' = "loop"
            /\ UNCHANGED error
    /\ UNCHANGED <<variant, df, idx, records, output, clock, ticks, current_date, arg, res, source>>

\* one iteration of the loop of lines 332-531
EnhRow ==
    /\ variant = "enhanced"
    /\ pc = "loop"
    /\ idx < Len(df)
    /\ idx' = idx + 1
    /\ records' = IF enh_skipped(df[idx + 1]) THEN records
                  ELSE Append(records, enh_record(df[idx + 1], idx + 1, clock, seasonal))
    /\ UNCHANGED <<variant, pc, df, output, clock, ticks, current_date, seasonal, arg, res, source, error>>

\* lines 533-584: sort in place, write, print the summary
EnhSave ==
    /\ variant = "enhanced"
    /\ pc = "loop"
    /\ idx = Len(df)
    /\ records' = SortDesc(records)
    /\ output' = File(SortDesc(records))
    /\ res' = <<enh_summary(SortDesc(records)).val>>
    /\ pc' = "done"
    /\ UNCHANGED <<variant, df, idx, clock, ticks, current_date, seasonal, arg, source, error>>

\* app.py main, lines 295-301: DCPropertyPredictor() and read_csv; the
\* FileNotFoundError of an absent file is caught at line 336, two messages are
\* printed and main returns
BasicStart ==
    /\ variant = "basic"
    /\ pc = "start"
    /\ current_date' = clock
    /\ IF source = "absent"
       THEN /\ error' = "FileNotFoundError"
            /\ pc' = "done"
       ELSE /\ pc' = "loop"
            /\ UNCHANGED error
    /\ UNCHANGED <<variant, df, idx, records, output, clock, ticks, seasonal, arg, res, source>>

\* one iteration of the loop of process_property_data
BasicRow ==
    /\ variant = "basic"
    /\ pc = "loop"
    /\ idx < Len(df)
    /\ idx' = idx + 1
    /\ records' = Append(records, basic_record(df[idx + 1], idx + 1, current_date))
    /\ UNCHANGED <<variant, pc, df, output, clock, ticks, current_date, seasonal, arg, res, source, error>>

\* app.py main, lines 308-340: save_to_json (sorted(...) and json.dump), then
\* the summary statistics; an exception of the statistics is caught at line
\* 339, a message is printed and main returns
BasicSave ==
    /\ variant = "basic"
    /\ pc = "loop"
    /\ idx = Len(df)
    /\ output' = File(SortDesc(records))
    /\ IF basic_summary(records).ok
       THEN /\ res' = <<basic_summary(records).val>>
            /\ UNCHANGED error
       ELSE /\ error' = "ZeroDivisionError"
            /\ UNCHANGED res
    /\ pc' = "done"
    /\ UNCHANGED <<variant, df, idx, records, clock, ticks, current_date, seasonal, arg, source>>

\* the category ladder of model m
CategoryOf(m, p) == IF m = "basic" THEN categorize_risk(p) ELSE enh_risk_category(p)

\* categorize_risk (app.py) or lines 462-471 applied to both probabilities
Categorize ==
    /\ variant = "categorize"
    /\ pc = "start"
    /\ res' = <<CategoryOf(arg[1], arg[2]), CategoryOf(arg[1], arg[3])>>
    /\ pc' = "done"
    /\ UNCHANGED <<variant, df, idx, records, output, clock, ticks, current_date,
                   seasonal, arg, source, error>>

\* clean_currency_field and get_numeric_value applied to the raw cell
Normalize ==
    /\ variant = "normalize"
    /\ pc = "start"
    /\ res' = <<clean_currency_field(arg[1]), get_numeric_value(arg[1], 0)>>
    /\ pc' = "done"
    /\ UNCHANGED <<variant, df, idx, records, output, clock, ticks, current_date,
                   seasonal, arg, source, error>>

\* assign_tiers applied to the batch
AssignTiers ==
    /\ variant = "assign_tiers"
    /\ pc = "start"
    /\ res' = <<assign_tiers(arg[1])>>
    /\ pc' = "done"
    /\ UNCHANGED <<variant, df, idx, records, output, clock, ticks, current_date,
                   seasonal, arg, source, error>>

\* the scorer applied below, on and above the boundary
Boundary ==
    /\ variant = "boundary"
    /\ pc = "start"
    /\ res' = <<TierContribution(arg[1], arg[2] - 1), TierContribution(arg[1], arg[2]),
                TierContribution(arg[1], arg[2] + 1)>>
    /\ pc' = "done"
    /\ UNCHANGED <<variant, df, idx, records, output, clock, ticks, current_date,
                   seasonal, arg, source, error>>

Next ==
    \/ Tick
    \/ EnhStart \/ EnhRow \/ EnhSave
    \/ BasicStart \/ BasicRow \/ BasicSave
    \/ Categorize
    \/ Normalize
    \/ AssignTiers
    \/ Boundary

Spec == Init /\ [][Next]_vars

(***************************************************************************)
(* Properties                                                              *)
(***************************************************************************)
Recs == {records[k] : k \in 1..Len(records)}

Basic == variant = "basic"

Enhanced == variant = "enhanced"

\* p / unit lies in [lo, hi] percent
InPercents(p, unit, lo, hi) == p * 100 >= lo * unit /\ p * 100 <= hi * unit

\* C1: the composite probability of every emitted record lies in the bound
\* of its model, [0.05, 0.95] for the basic and [0.10, 0.95] for the enhanced
\* one, and so does the emitted listing_probability
C1_ProbabilityInBounds ==
    \A r \in Recs :
        /\ Basic => /\ InPercents(r.final_probability, BasicUnit, 5, 95)
                    /\ r.listing_probability \in 50..950
        /\ Enhanced => /\ InPercents(r.final_probability, ProbUnit, 10, 95)
                       /\ r.listing_probability \in 100..950

\* an enhanced December record clamped up to 0.10
C1_Witness ==
    /\ Enhanced
    /\ \E r \in Recs : r.final_probability * 10 = ProbUnit /\ r.seasonal_multiplier = 14

\* C2: every factor lies within its own cap, and only homestead protection
\* is ever negative
C2_FactorsWithinCaps ==
    \A r \in Recs :
        /\ Enhanced =>
              /\ r.financial_distress_score \in 0..7
              /\ r.financial_pressure_factor \in 0..350
              /\ r.ownership_complexity_factor \in 0..350
              /\ r.assessment_shock_factor \in 0..350
              /\ r.market_pressure_factor \in 0..300
              /\ r.tax_sale_risk_factor \in 0..300
              /\ r.payment_pattern_risk \in 0..250
              /\ r.vacant_property_risk \in {0, 200}
              /\ r.mixed_use_complexity \in 0..250
              /\ r.homestead_protection \in (-150)..0
        /\ Basic =>
              /\ r.financial_distress_score \in 0..8
              /\ r.ownership_complexity_score \in 0..5
              /\ r.assessment_shock_score \in 0..4

\* an enhanced record whose ownership indicators add up to more than the cap
C2_Witness ==
    /\ Enhanced
    /\ \E r \in Recs :
          /\ r.ownership_complexity_factor = 350
          /\ r.corporate_owner /\ r.trust_ownership /\ r.estate_ownership
          /\ r.financial_distress_score = 7

CategoryOrder == <<"Low", "Moderate", "High", "Very High", "Extremely High">>

Rank(c) == CHOOSE k \in 1..Len(CategoryOrder) : CategoryOrder[k] = c

\* the band whose inclusive lower boundary is b percent, 0 when b is none
BandAt(m, b) ==
    IF m = "basic"
    THEN (CASE b = 80 -> 5 [] b = 60 -> 4 [] b = 40 -> 3 [] b = 20 -> 2 [] OTHER -> 0)
    ELSE (CASE b = 75 -> 5 [] b = 55 -> 4 [] b = 35 -> 3 [] b = 20 -> 2 [] OTHER -> 0)

\* C3: the category is monotone in the probability: for p <= q the category
\* of q has no lower rank than that of p, equal probabilities get the same
\* category, and a probability on a boundary gets the band above it
C3_CategoryMonotone ==
    (variant = "categorize" /\ pc = "done") =>
        LET m == arg[1]
            p == arg[2]
            q == arg[3]
            unit == IF m = "basic" THEN BasicUnit ELSE ProbUnit
        IN  /\ res[1] \in {CategoryOrder[k] : k \in 1..5}
            /\ p <= q => Rank(res[1]) <= Rank(res[2])
            /\ p = q => res[1] = res[2]
            /\ \A b \in LadderPercents :
                   (p * 100 = b * unit /\ BandAt(m, b) # 0) => Rank(res[1]) = BandAt(m, b)

\* a probability just under a boundary and one on it fall in adjacent bands
C3_Witness ==
    /\ variant = "categorize" /\ pc = "done"
    /\ arg[1] = "basic"
    /\ arg[2] + 1 = arg[3]
    /\ arg[3] * 100 = 60 * BasicUnit
    /\ res = <<"High", "Very High">>

\* C4: a record whose assessment is 0, missing or unparsable has debt ratio
\* exactly 0, whatever its balance
C4_ZeroAssessmentZeroRatio ==
    \A r \in Recs :
        /\ r.assessment = 0 => r.debt_ratio.n = 0
        /\ df[r.row].ASSESSMENT \in {NaN, Num(0), Txt("n/a")} =>
              r.assessment = 0 /\ r.debt_ratio.n = 0

\* a record with no assessment and a balance
C4_Witness ==
    \E r \in Recs :
        /\ df[r.row].ASSESSMENT = NaN
        /\ r.total_balance > 0
        /\ r.debt_ratio.n = 0

\* the cell is empty or missing
EmptyCell(c) == IsNa(c) \/ (c.k = "str" /\ Strip(c.s) = "")

\* identifier, address and owner empty and the assessment zero or missing
RowIsEmpty(row) ==
    /\ EmptyCell(row.SSL) /\ EmptyCell(row.PREMISEADD) /\ EmptyCell(row.OWNERNAME)
    /\ (EmptyCell(row.ASSESSMENT) \/ row.ASSESSMENT = Num(0))

RecordsOfRow(i) == Cardinality({k \in 1..Len(records) : records[k].row = i})

\* C5: in every variant a row is absent from the output iff its
\* identifier, address and owner are empty and its assessment is zero or
\* missing; every other row yields exactly one record
C5_ExclusionRule ==
    pc = "done" /\ variant \in {"basic", "enhanced"} =>
        \A i \in 1..Len(df) :
            RecordsOfRow(i) = (IF RowIsEmpty(df[i]) THEN 0 ELSE 1)

\* C6: the written sequence is a permutation of the scored records, is
\* non-increasing in listing_probability, keeps records of equal
\* listing_probability in their input order, and changes no record
C6_StableDescendingSort ==
    [][(pc = "loop" /\ pc' = "done") =>
          LET o == output'[2] IN
          /\ output'[1] = "file"
          /\ Len(o) = Len(records)
          /\ {o[k] : k \in 1..Len(o)} = Recs
          /\ \A i, j \in 1..Len(o) :
                i < j => /\ o[i].listing_probability >= o[j].listing_probability
                         /\ o[i].listing_probability = o[j].listing_probability
                               => o[i].row < o[j].row]_vars

\* a written file that holds a tie and a pair the sort had to swap
C6_Witness ==
    /\ output[1] = "file"
    /\ \E i, j \in 1..Len(output[2]) :
          /\ i < j
          /\ output[2][i].listing_probability = output[2][j].listing_probability
    /\ \E i, j \in 1..Len(output[2]) :
          i < j /\ output[2][i].row > output[2][j].row

\* C7: the estate scenario (assessment 100000, balance 20000, sold 22 years
\* before the run, owner an estate, ward 8) has debt ratio 0.20, the estate
\* flag and ward multiplier 1.30, and is Very High or Extremely High under
\* every property type and month
C7_EstateScenario ==
    Enhanced =>
        \A r \in Recs :
            r.SSL = "ESTATE-22" =>
                /\ r.debt_ratio.n * 5 = r.debt_ratio.d
                /\ r.estate_ownership
                /\ ~r.trust_ownership /\ ~r.corporate_owner
                /\ r.ward_multiplier = 26
                /\ r.risk_category \in {"Very High", "Extremely High"}

\* the scenario in December with a single family home: the lowest product
C7_Witness ==
    /\ Enhanced
    /\ \E r \in Recs :
          /\ r.SSL = "ESTATE-22"
          /\ r.years_since_sale > 21 * YearsUnit /\ r.years_since_sale < 23 * YearsUnit
          /\ r.seasonal_multiplier = 14
          /\ r.prop_type_multiplier = 20
          /\ r.risk_category = "Very High"

\* the text is a date in one of the accepted formats, a time part allowed
AcceptedDate(s) == ParseDate(Split(Strip(s), " ")[1]).ok

\* missing, empty, or matching none of the accepted formats
BadSaleDate(c) == IsNa(c) \/ (c.k = "str" /\ (Strip(c.s) = "" \/ ~AcceptedDate(c.s)))

C9_ClockCapturedOnce ==
    pc = "done" /\ variant \in {"basic", "enhanced"} =>
        \A r1, r2 \in Recs :
            df[r1.row] = df[r2.row] =>
                /\ r1.years_since_sale = r2.years_since_sale
                /\ Enhanced => r1.payment_pattern_risk = r2.payment_pattern_risk
                /\ r1.final_probability = r2.final_probability

\* C10: every normalized currency value is >= 0, and 0 when the raw value is
\* absent or unparsable
C10_CurrencyNonNegative ==
    (variant = "normalize" /\ pc = "done") =>
        /\ res[1] >= 0
        /\ res[2] >= 0
        /\ EmptyCell(arg[1]) => res = <<0, 0>>
        /\ (arg[1].k = "str" /\ StripNonNumeric(arg[1].s) = "") => res = <<0, 0>>

\* C11: in the enhanced variant the debt-to-assessment ratio of every emitted
\* record lies in [0, 1]
C11_EnhancedRatioInUnit ==
    Enhanced =>
        \A r \in Recs :
            /\ r.debt_ratio.d > 0
            /\ r.debt_ratio.n >= 0
            /\ r.debt_ratio.n <= r.debt_ratio.d

\* no record was emitted: the batch had no row, or every row was excluded
EmptyBatch == pc = "done" /\ source = "present" /\ Len(records) = 0

\* C12: a run over an empty batch completes normally, writes an empty result
\* sequence and meets no division by zero or other error
C12_EmptyBatchNoError ==
    (variant \in {"basic", "enhanced"} /\ EmptyBatch) =>
        /\ output = File(<<>>)
        /\ error = "none"

\* every score of the batch is the same
AllEqual(scores) == \A i, j \in 1..Len(scores) : scores[i] = scores[j]

\* C13: for a non-empty batch of equal scores the two percentile thresholds
\* are that one value and every record gets the same, higher tier; assigning
\* tiers changes no score
C13_EqualScoresOneTier ==
    (variant = "assign_tiers" /\ pc = "done") =>
        /\ Len(res[1].records) = Len(arg[1])
        /\ \A k \in 1..Len(arg[1]) : res[1].records[k].score = arg[1][k]
        /\ (Len(arg[1]) > 0 /\ AllEqual(arg[1])) =>
              /\ res[1].thresholds = <<arg[1][1], arg[1][1]>>
              /\ \A k \in 1..Len(arg[1]) : res[1].records[k].tier = "High"

\* the batch of ten identical records, tiered
C13_Witness ==
    /\ variant = "assign_tiers" /\ pc = "done"
    /\ arg[1] = [k \in 1..10 |-> 600]
    /\ res[1].thresholds = <<600, 600>>
    /\ \A k \in 1..10 : res[1].records[k] = [score |-> 600, tier |-> "High"]

\* the day the text names, a time part dropped
DayOfText(s) == ParseDate(Split(Strip(s), " ")[1]).val

\* C14: a sale date in one of the four accepted formats, with or without a
\* time part, gives years since transfer max(0, days / 365.25) counted from
\* that date to a reference date of the run, 0 for a date in the future, and
\* never the 25.0 default in place of it
C14_AcceptedDatesParsed ==
    \A r \in Recs :
        (df[r.row].SALEDATE.k = "str" /\ AcceptedDate(df[r.row].SALEDATE.s)) =>
            /\ \E now \in (clock - ticks)..clock :
                   r.years_since_sale = YearsBetween(now, DayOfText(df[r.row].SALEDATE.s))
            /\ DayOfText(df[r.row].SALEDATE.s) > clock => r.years_since_sale = 0

\* the ladders whose tests are >= on a whole number
InclusiveKinds == {"tax_sale_count", "tax_class", "prior_year_count"}

\* C15 as stated: in every tier ladder an input exactly on a boundary earns
\* what an input just below it earns, and less than an input just above it
C15_AllTiersStrict ==
    (variant = "boundary" /\ pc = "done") => (res[1] = res[2] /\ res[2] < res[3])

\* C15 amended: the debt-ratio, balance, assessment, appreciation-ratio,
\* assessment-increase and days-since-payment ladders are strict (an input on
\* a boundary earns the next lower tier), while the tax-sale-count, tax-class
\* and prior-year-balance-count ladders are inclusive (an input on a boundary
\* earns that boundary's tier, more than the count just below it); in both
\* the contribution never decreases
C15_TiersStrictOrInclusive ==
    (variant = "boundary" /\ pc = "done") =>
        /\ arg[1] \notin InclusiveKinds => (res[1] = res[2] /\ res[2] < res[3])
        /\ arg[1] \in InclusiveKinds => (res[1] < res[2] /\ res[2] <= res[3])

\* a balance of exactly 25000 earns the 10000 tier, and three tax sales earn
\* the top tier: one state shows one ladder, so the strict one is named here
C15_Witness ==
    /\ variant = "boundary" /\ pc = "done"
    /\ arg = <<"balance", 25000>>
    /\ res = <<1, 1, 2>>

\* the old and the new assessment of the record's row, as the variant reads them
OldTotal(r) ==
    IF Basic THEN clean_currency_field(df[r.row].OLDTOTAL)
    ELSE get_numeric_value(df[r.row].OLDTOTAL, 0)

NewTotal(r) ==
    IF Basic THEN clean_currency_field(df[r.row].NEWTOTAL)
    ELSE get_numeric_value(df[r.row].NEWTOTAL, 0)

\* the assessment shock contribution of the record
ShockOf(r) == IF Basic THEN r.assessment_shock_score ELSE r.assessment_shock_factor

\* C16 as stated: a record without an increase (old assessment > 0 and new
\* assessment > old assessment) has assessment shock contribution 0
C16_ShockOneDirectional ==
    \A r \in Recs : ~(OldTotal(r) > 0 /\ NewTotal(r) > OldTotal(r)) => ShockOf(r) = 0

\* C16 amended: without an increase the basic score is 0; the enhanced
\* factor is 0 when both assessments are known (old > 0, new not 0) and
\* there is no increase, and when one of them is missing or zero it falls
\* back on the assessment tiers: 0 exactly when the assessment is at most
\* 250000
C16_ShockIncreaseOrFallback ==
    \A r \in Recs :
        /\ Basic => (~(OldTotal(r) > 0 /\ NewTotal(r) > OldTotal(r)) => ShockOf(r) = 0)
        /\ Enhanced =>
              /\ (OldTotal(r) > 0 /\ NewTotal(r) # 0 /\ NewTotal(r) <= OldTotal(r))
                     => ShockOf(r) = 0
              /\ (OldTotal(r) <= 0 \/ NewTotal(r) = 0)
                     => (ShockOf(r) = 0 <=> r.assessment <= 250000)

\* an enhanced record whose assessment fell, and so earns no shock although
\* its assessment is above the first tier
C16_Witness ==
    /\ Enhanced
    /\ \E r \in Recs :
          /\ OldTotal(r) > 0 /\ NewTotal(r) > 0 /\ NewTotal(r) < OldTotal(r)
          /\ r.assessment > 250000
          /\ ShockOf(r) = 0

\* C17: every enhanced factor lies within the range annotated for it where
\* main calls its scorer (lines 400-428): financial pressure 0..0.35,
\* ownership complexity 0..0.30, assessment shock 0..0.30, market pressure
\* 0..0.30, tax-sale risk 0..0.30, payment pattern 0..0.25, homestead
\* protection -0.15..0, vacant property 0..0.20, mixed use 0..0.25
C17_FactorsWithinAnnotatedRanges ==
    Enhanced =>
        \A r \in Recs :
            /\ r.financial_pressure_factor \in 0..350
            /\ r.ownership_complexity_factor \in 0..300
            /\ r.assessment_shock_factor \in 0..300
            /\ r.market_pressure_factor \in 0..300
            /\ r.tax_sale_risk_factor \in 0..300
            /\ r.payment_pattern_risk \in 0..250
            /\ r.homestead_protection \in (-150)..0
            /\ r.vacant_property_risk \in 0..200
            /\ r.mixed_use_complexity \in 0..250

\* C18: with the input source absent, a variant's entry point ends by raising
\* to its caller, never by returning as a run that succeeded returns, and no
\* output file is written
C18_MissingInputReported ==
    (source = "absent" /\ pc \in {"done", "raised"}) =>
        /\ pc = "raised"
        /\ error = "FileNotFoundError"
        /\ output = NoFile

\* C19: an enhanced record's confidence label is "High" exactly when its
\* final probability is above 0.6 or below 0.25, and "Medium" otherwise; so
\* an "Extremely High" or "Low" record has confidence "High" and a "High"
\* record (0.35 <= p < 0.55) has confidence "Medium"
C19_ConfidenceLabel ==
    Enhanced =>
        \A r \in Recs :
            /\ r.prediction_confidence \in {"High", "Medium"}
            /\ r.prediction_confidence = "High" <=>
                  (r.final_probability * 100 > 60 * ProbUnit \/ r.final_probability * 100 < 25 * ProbUnit)
            /\ r.risk_category \in {"Extremely High", "Low"} => r.prediction_confidence = "High"
            /\ r.risk_category = "High" =>
                  /\ r.final_probability * 100 >= 35 * ProbUnit
                  /\ r.final_probability * 100 < 55 * ProbUnit
                  /\ r.prediction_confidence = "Medium"

\* a batch with a "Low" and an "Extremely High" record of confidence "High"
\* and a "High" record of confidence "Medium"
C19_Witness ==
    /\ Enhanced
    /\ pc = "done"
    /\ \E r \in Recs : r.risk_category = "Low" /\ r.prediction_confidence = "High"
    /\ \E r \in Recs : r.risk_category = "Extremely High" /\ r.prediction_confidence = "High"
    /\ \E r \in Recs : r.risk_category = "High" /\ r.prediction_confidence = "Medium"

\* C20: in every emitted record the category is the one the variant's ladder
\* gives for the emitted listing_probability, the probability rounded to three
\* decimal places
C20_CategoryMatchesEmitted ==
    \A r \in Recs :
        /\ Basic => r.risk_category = categorize_risk(r.listing_probability * (BasicUnit \div 1000))
        /\ Enhanced => r.risk_category = enh_risk_category(r.listing_probability * (ProbUnit \div 1000))

====
